---- MODULE Spec2Model ----
(***************************************************************************)
(* Model of src/src/BottomSheet.tsx: the BottomSheet component, its        *)
(* visibility hook (useBottomSheetVisibility) and its gesture hook         *)
(* (usePanResponder).                                                      *)
(*                                                                         *)
(* The component drives two react-native Animated values.  The model       *)
(* keeps, for each value, its current number and the animation running on  *)
(* it.  Animated.timing(v, c).start(cb) on a value stops the animation     *)
(* already running on v, and a stopped animation invokes its own start     *)
(* callback with {finished: false}; a run that reaches its end invokes it  *)
(* with {finished: true}.  The callbacks of BottomSheet.tsx take no        *)
(* argument, so they run the same statements in both cases.  A timing of   *)
(* duration 0 sets the value and ends inside start().  setValue on a value *)
(* stops the animation running on it.                                      *)
(*                                                                         *)
(* Lengths are integers; the release test height / 4 - dy < 0 is computed  *)
(* as height < 4 * dy, which is the same comparison without the division.  *)
(***************************************************************************)
EXTENDS Integers, Sequences, FiniteSets, TLC

\* ---- bounds of the model ------------------------------------------------
MaxHeight == 4
MaxMinClosing == 1
MaxDy == 1
MaxOps == 5
MaxLiveOps == 4
MaxRenderOps == 4
MaxTwoOps == 4

\* ---- program constants --------------------------------------------------
DefaultDuration == 300

Heights == 0..MaxHeight
MinClosingHeights == 0..MaxMinClosing
Durations == {0, DefaultDuration}
Deltas == (0 - 1)..MaxDy

VARIABLES
    props,          \* the Props of the current render
    panResponder,   \* panResponder.current: the values its handlers closed over
    modalVisible,   \* useState(false) of useBottomSheetVisibility
    animatedHeight, \* the Animated.Value: [value, animation]
    pan,            \* the Animated.ValueXY: [x, y, animation]
    gesture,        \* "idle" | "active": the responder holds a touch
    opsLeft,        \* operations the owner and the user may still issue
    lastOp,         \* the step just taken, with the state it was taken in
    onCloseCalls,   \* number of invocations of props.onClose so far
    cycleCalls,     \* invocations of props.onClose since the last open()
    onCloseObs,     \* what each onClose invoked by the last step observed
    lastCall,       \* the last call of setModalVisibility: "open" | "close"
    closeInDrag,    \* close() was called during the gesture that is active
    ended           \* an animation of animatedHeight has run to its end

vars == <<props, panResponder, modalVisible, animatedHeight, pan, gesture,
          opsLeft, lastOp, onCloseCalls, cycleCalls, onCloseObs, lastCall,
          closeInDrag, ended>>

\* ---- values -------------------------------------------------------------

\* the values setModalVisibility closes over (its useCallback dependencies)
Closure(p) ==
    [height |-> p.height, minClosingHeight |-> p.minClosingHeight,
     duration |-> p.duration, onClose |-> p.onClose]

NoClosure == [height |-> 0, minClosingHeight |-> 0, duration |-> 0, onClose |-> FALSE]

\* who asked for an animation, and in which state
NoRequest == [op |-> "none", dy |-> 0, visible |-> FALSE, atRest |-> TRUE]

NoAnimation == [kind |-> "none", toValue |-> 0, closure |-> NoClosure, origin |-> NoRequest]

NoSpring == [kind |-> "none", from |-> 0]

initialHeight == [value |-> 0, animation |-> NoAnimation]

initialPan == [x |-> 0, y |-> 0, animation |-> NoSpring]

PropsSet ==
    [height : Heights, minClosingHeight : MinClosingHeights, duration : Durations,
     closeOnDragDown : BOOLEAN, closeOnPressMask : BOOLEAN,
     closeOnPressBack : BOOLEAN, onClose : BOOLEAN]

\* PanResponder.create in the effect of usePanResponder
CreatePanResponder(p) ==
    [closeOnDragDown |-> p.closeOnDragDown, height |-> p.height,
     setModalVisibility |-> Closure(p)]

Abs(n) == IF n < 0 THEN 0 - n ELSE n

\* mutant: a frame may pass the value the animation runs to
Between_Overshoot(a, b) == IF a < b THEN (a + 1)..(b + 1) ELSE (b + 1)..(a - 1)

\* the values strictly between a and b
Between(a, b) == IF a < b THEN (a + 1)..(b - 1) ELSE (b + 1)..(a - 1)

\* ---- the store the handlers read and write ------------------------------

Store ==
    [modalVisible |-> modalVisible, animatedHeight |-> animatedHeight,
     pan |-> pan, log |-> <<>>, call |-> lastCall, ended |-> ended]

\* no animation is running and no gesture is active
AtRest ==
    /\ animatedHeight.animation.kind = "none"
    /\ pan.animation.kind = "none"
    /\ gesture = "idle"

\* the request a handler makes in the current state
Request(name, dy) ==
    [op |-> name, dy |-> dy, visible |-> modalVisible,
     atRest |-> AtRest]

\* pan.setValue({x: 0, y: 0})
PanSetValueZero(s) == [s EXCEPT !.pan = [x |-> 0, y |-> 0, animation |-> NoSpring]]

\* if (onClose) onClose(): the log keeps what the callback can observe
InvokeOnClose(s, a, finished) ==
    IF a.closure.onClose
    THEN [s EXCEPT !.log = Append(@, [height |-> s.animatedHeight.value,
                                      pan |-> <<s.pan.x, s.pan.y>>,
                                      finished |-> finished,
                                      origin |-> a.origin])]
    ELSE s

\* the callback given to start() by the close branch
CloseCallback(s, a, finished) ==
    InvokeOnClose(PanSetValueZero([s EXCEPT !.modalVisible = FALSE]), a, finished)

\* the callback given to start() by the open branch
OpenCallback(s, c) ==
    [s EXCEPT !.animatedHeight = [value |-> c.height, animation |-> NoAnimation]]

\* the end of a run of an animation on animatedHeight: its callback runs
EndCallback(s, a, finished) ==
    IF a.kind = "open" THEN OpenCallback(s, a.closure)
    ELSE IF a.kind = "close" THEN CloseCallback(s, a, finished)
    ELSE s

\* the animation running on animatedHeight is stopped: {finished: false}
StopHeightAnimation(s) ==
    EndCallback([s EXCEPT !.animatedHeight.animation = NoAnimation],
                s.animatedHeight.animation, FALSE)

\* Animated.timing(animatedHeight, {toValue, duration}).start(callback)
StartTiming(s, kind, toValue, c, origin) ==
    LET a  == [kind |-> kind, toValue |-> toValue, closure |-> c, origin |-> origin]
        s1 == StopHeightAnimation(s)
    IN  IF c.duration = 0
        THEN EndCallback([s1 EXCEPT !.animatedHeight.value = toValue,
                                    !.ended = TRUE], a, TRUE)
        ELSE [s1 EXCEPT !.animatedHeight.animation = a]

\* mutant: the close animation runs to 0, whatever minClosingHeight is
setModalVisibility_CloseToZero(s, c, visible, origin) ==
    IF visible
    THEN StartTiming([s EXCEPT !.modalVisible = TRUE, !.call = "open"],
                     "open", c.height, c, origin)
    ELSE StartTiming([s EXCEPT !.call = "close"], "close", 0, c, origin)

setModalVisibility(s, c, visible, origin) ==
    IF visible
    THEN StartTiming([s EXCEPT !.modalVisible = TRUE, !.call = "open"],
                     "open", c.height, c, origin)
    ELSE StartTiming([s EXCEPT !.call = "close"],
                     "close", c.minClosingHeight, c, origin)

\* mutant: the panel stops following the finger at its own height
onPanResponderMove_Clamped(s, dy) ==
    IF dy > 0
    THEN [s EXCEPT !.pan = [x |-> s.pan.x,
                            y |-> IF dy > props.height THEN props.height ELSE dy,
                            animation |-> NoSpring]]
    ELSE s

\* onPanResponderMove
onPanResponderMove(s, dy) ==
    IF dy > 0
    THEN [s EXCEPT !.pan = [x |-> s.pan.x, y |-> dy, animation |-> NoSpring]]
    ELSE s

\* mutant: the threshold is height / 2
onPanResponderRelease_Half(s, r, dy) ==
    IF r.height < 2 * dy
    THEN setModalVisibility(s, r.setModalVisibility, FALSE, Request("release", dy))
    ELSE [s EXCEPT !.pan.animation = [kind |-> "spring", from |-> Abs(s.pan.y)]]

\* mutant: a drag of exactly height / 4 commits
onPanResponderRelease_Inclusive(s, r, dy) ==
    IF r.height <= 4 * dy
    THEN setModalVisibility(s, r.setModalVisibility, FALSE, Request("release", dy))
    ELSE [s EXCEPT !.pan.animation = [kind |-> "spring", from |-> Abs(s.pan.y)]]

\* onPanResponderRelease
onPanResponderRelease(s, r, dy) ==
    IF r.height < 4 * dy
    THEN setModalVisibility(s, r.setModalVisibility, FALSE, Request("release", dy))
    ELSE [s EXCEPT !.pan.animation = [kind |-> "spring", from |-> Abs(s.pan.y)]]

\* ---- steps --------------------------------------------------------------

Op(name, dy) ==
    [op |-> name, dy |-> dy, visible |-> modalVisible,
     running |-> animatedHeight.animation.kind, gesture |-> gesture,
     pan |-> <<pan.x, pan.y>>, height |-> animatedHeight.value,
     origin |-> animatedHeight.animation.origin]

\* the store after a handler ran becomes the next state
Commit(s, name, dy) ==
    /\ modalVisible' = s.modalVisible
    /\ animatedHeight' = s.animatedHeight
    /\ pan' = s.pan
    /\ onCloseObs' = s.log
    /\ onCloseCalls' = onCloseCalls + Len(s.log)
    /\ cycleCalls' = IF name = "open" THEN 0
                     ELSE cycleCalls + Cardinality({i \in DOMAIN s.log :
                                                      s.log[i].origin.visible})
    /\ lastCall' = s.call
    /\ ended' = s.ended
    /\ lastOp' = Op(name, dy)

Spend == opsLeft > 0 /\ opsLeft' = opsLeft - 1

InitOps(n) ==
    /\ props \in PropsSet
    /\ panResponder = CreatePanResponder(props)
    /\ modalVisible = FALSE
    /\ animatedHeight = initialHeight
    /\ pan = initialPan
    /\ gesture = "idle"
    /\ opsLeft = n
    /\ lastOp = [op |-> "init", dy |-> 0, visible |-> FALSE, running |-> "none",
                 gesture |-> "idle", pan |-> <<0, 0>>, height |-> 0,
                 origin |-> NoRequest]
    /\ onCloseCalls = 0
    /\ cycleCalls = 0
    /\ onCloseObs = <<>>
    /\ lastCall = "none"
    /\ closeInDrag = FALSE
    /\ ended = FALSE

Init == InitOps(MaxOps)

\* ref.current.open()
Open ==
    /\ Spend
    /\ Commit(setModalVisibility(Store, Closure(props), TRUE, Request("open", 0)),
              "open", 0)
    /\ UNCHANGED <<props, panResponder, gesture, closeInDrag>>

\* ref.current.close()
Close ==
    /\ Spend
    /\ Commit(setModalVisibility(Store, Closure(props), FALSE, Request("close", 0)),
              "close", 0)
    /\ closeInDrag' = (gesture = "active")
    /\ UNCHANGED <<props, panResponder, gesture>>

\* mutant: the mask closes the sheet whatever closeOnPressMask is
MaskPress_Always ==
    /\ Spend
    /\ modalVisible
    /\ Commit(setModalVisibility(Store, Closure(props), FALSE, Request("mask", 0)),
              "mask", 0)
    /\ UNCHANGED <<props, panResponder, gesture, closeInDrag>>

\* the mask's onPress
MaskPress ==
    /\ Spend
    /\ modalVisible
    /\ Commit(IF props.closeOnPressMask
              THEN setModalVisibility(Store, Closure(props), FALSE, Request("mask", 0))
              ELSE Store, "mask", 0)
    /\ UNCHANGED <<props, panResponder, gesture, closeInDrag>>

\* mutant: the back request closes the sheet whatever closeOnPressBack is
RequestClose_Always ==
    /\ Spend
    /\ modalVisible
    /\ Commit(setModalVisibility(Store, Closure(props), FALSE, Request("back", 0)),
              "back", 0)
    /\ UNCHANGED <<props, panResponder, gesture, closeInDrag>>

\* the Modal's onRequestClose
RequestClose ==
    /\ Spend
    /\ modalVisible
    /\ Commit(IF props.closeOnPressBack
              THEN setModalVisibility(Store, Closure(props), FALSE, Request("back", 0))
              ELSE Store, "back", 0)
    /\ UNCHANGED <<props, panResponder, gesture, closeInDrag>>

\* a touch starts on the container: onStartShouldSetPanResponder
GestureStart ==
    /\ Spend
    /\ modalVisible
    /\ gesture = "idle"
    /\ gesture' = IF panResponder.closeOnDragDown THEN "active" ELSE "idle"
    /\ Commit(Store, "start", 0)
    /\ closeInDrag' = FALSE
    /\ UNCHANGED <<props, panResponder>>

GestureMove ==
    /\ Spend
    /\ gesture = "active"
    /\ \E dy \in Deltas : Commit(onPanResponderMove(Store, dy), "move", dy)
    /\ UNCHANGED <<props, panResponder, gesture, closeInDrag>>

GestureRelease ==
    /\ Spend
    /\ gesture = "active"
    /\ gesture' = "idle"
    /\ \E dy \in Deltas :
         Commit(onPanResponderRelease(Store, panResponder, dy), "release", dy)
    /\ closeInDrag' = FALSE
    /\ UNCHANGED <<props, panResponder>>

\* the responder is taken away: no onPanResponderTerminate handler is set
GestureTerminate ==
    /\ Spend
    /\ gesture = "active"
    /\ gesture' = "idle"
    /\ Commit(Store, "terminate", 0)
    /\ closeInDrag' = FALSE
    /\ UNCHANGED <<props, panResponder>>

\* a frame of the timing animation: the value moves towards toValue
HeightFrame ==
    /\ animatedHeight.animation.kind # "none"
    /\ \E v \in Between(animatedHeight.value, animatedHeight.animation.toValue) :
         Commit([Store EXCEPT !.animatedHeight.value = v], "heightFrame", 0)
    /\ UNCHANGED <<props, panResponder, gesture, opsLeft, closeInDrag>>

\* the last frame of the timing animation: {finished: true}
HeightComplete ==
    /\ animatedHeight.animation.kind # "none"
    /\ Commit(EndCallback([Store EXCEPT
                  !.animatedHeight = [value |-> animatedHeight.animation.toValue,
                                      animation |-> NoAnimation],
                  !.ended = TRUE],
                          animatedHeight.animation, TRUE), "heightComplete", 0)
    /\ UNCHANGED <<props, panResponder, gesture, opsLeft, closeInDrag>>

\* a frame of the spring on pan: it may overshoot (0,0)
SpringFrame ==
    /\ pan.animation.kind = "spring"
    /\ \E v \in (0 - pan.animation.from)..pan.animation.from :
         /\ v # pan.y
         /\ Commit([Store EXCEPT !.pan.y = v], "springFrame", 0)
    /\ UNCHANGED <<props, panResponder, gesture, opsLeft, closeInDrag>>

\* the spring comes to rest on its toValue
SpringComplete ==
    /\ pan.animation.kind = "spring"
    /\ Commit(PanSetValueZero(Store), "springComplete", 0)
    /\ UNCHANGED <<props, panResponder, gesture, opsLeft, closeInDrag>>

Next ==
    \/ Open
    \/ Close
    \/ MaskPress
    \/ RequestClose
    \/ GestureStart
    \/ GestureMove
    \/ GestureRelease
    \/ GestureTerminate
    \/ HeightFrame
    \/ HeightComplete
    \/ SpringFrame
    \/ SpringComplete

Spec == Init /\ [][Next]_vars

\* the props that differ from p in the value of exactly one prop other than
\* height
OtherProps(p) ==
    {q \in PropsSet :
        /\ q.height = p.height
        /\ Cardinality({f \in DOMAIN p : q[f] # p[f]}) = 1}

\* the owner renders the sheet again with a new value for one prop; height
\* (and pan) stay the same, so the effect of usePanResponder does not run
\* and panResponder.current keeps the handlers created before
Rerender ==
    /\ Spend
    /\ \E q \in OtherProps(props) : props' = q
    /\ Commit(Store, "render", 0)
    /\ UNCHANGED <<panResponder, gesture, closeInDrag>>

NextRerender == Next \/ Rerender

\* the sheet with an owner that changes props after the sheet was created
SpecRerender == InitOps(MaxRenderOps) /\ [][NextRerender]_vars

\* open() of a second BottomSheet mounted next to this one, with props of its
\* own: its useState(initialHeight) and useState(initialPan) hand it the same
\* module-level Animated.Value and Animated.ValueXY, so its timing animation
\* runs on the animatedHeight of this sheet (its setModalVisible(true) sets
\* its own modalVisible, which no handler of this sheet reads)
Open2 ==
    /\ Spend
    /\ \E h \in Heights, d \in Durations :
         Commit(StartTiming(Store, "open", h,
                            [height |-> h, minClosingHeight |-> 0,
                             duration |-> d, onClose |-> FALSE],
                            Request("open2", 0)),
                "open2", 0)
    /\ UNCHANGED <<props, panResponder, gesture, closeInDrag>>

NextTwo == Next \/ Open2

\* two sheets alive at the same time
SpecTwo == InitOps(MaxTwoOps) /\ [][NextTwo]_vars

\* a sheet created with the default closeOnPressMask and closeOnPressBack
LiveInit ==
    InitOps(MaxLiveOps) /\ props.closeOnPressMask /\ props.closeOnPressBack

\* the animation engine keeps running the animations it has started
LiveSpec ==
    LiveInit /\ [][Next]_vars /\ WF_vars(HeightComplete) /\ WF_vars(SpringComplete)

TypeOK ==
    /\ props \in PropsSet
    /\ modalVisible \in BOOLEAN
    /\ gesture \in {"idle", "active"}
    /\ opsLeft \in 0..MaxOps
    /\ onCloseCalls \in 0..(2 * MaxOps)
    /\ lastCall \in {"none", "open", "close"}
    /\ closeInDrag \in BOOLEAN
    /\ pan.x = 0

\* ---- the claims ---------------------------------------------------------

\* the step just taken was a release, on a visible sheet, of a gesture the
\* sheet had claimed
ReleasedVisible == lastOp.op = "release" /\ lastOp.visible /\ lastOp.gesture = "active"

\* the step just taken was the end ({finished: true}) of the close animation
\* that a release on a visible sheet had started
DragCloseCompleted ==
    /\ lastOp.op = "heightComplete"
    /\ lastOp.running = "close"
    /\ lastOp.origin.op = "release"
    /\ lastOp.origin.visible
    /\ lastOp.origin.dy > 0

\* the onClose invocations of the last step are exactly one, made by the run
\* that the request `op` started
OnCloseOnceBy(op) ==
    IF props.onClose
    THEN Len(onCloseObs) = 1 /\ onCloseObs[1].origin.op = op
    ELSE onCloseObs = <<>>

C2_SnapBack ==
    [][/\ (/\ lastOp'.op = "release"
           /\ modalVisible
           /\ gesture = "active"
           /\ 0 <= lastOp'.dy
           /\ 4 * lastOp'.dy <= props.height)
          => /\ modalVisible'
             /\ animatedHeight' = animatedHeight
             /\ onCloseCalls' = onCloseCalls
             /\ pan'.animation.kind = "spring"
       /\ lastOp'.op = "springComplete"
          => /\ pan'.x = 0 /\ pan'.y = 0 /\ pan'.animation.kind = "none"
             /\ modalVisible' = modalVisible
             /\ onCloseCalls' = onCloseCalls]_vars

C2_Witness ==
    /\ lastOp.op = "springComplete"
    /\ lastOp.pan[2] > 0
    /\ pan.y = 0
    /\ modalVisible
    /\ props.height = 4
    /\ onCloseCalls = 0

\* the sheet is closed and nothing is running
ClosedAtRest == ~modalVisible /\ AtRest

\* a configuration of section 3 of the specification: height is positive and
\* minClosingHeight is below it
ValidProps == props.height > 0 /\ props.minClosingHeight < props.height

\* the animations take time
Timed == props.duration > 0

\* C3: (for a valid configuration with a positive duration) close() on a
\* sheet that is closed and at rest changes nothing:
\* modalVisible, the value of animatedHeight and pan stay as they are and
\* onClose is not invoked, neither by the call nor by the end of the
\* animation the call starts.
C3_CloseWhenClosedNoEffect ==
    [][(/\ ValidProps
        /\ Timed
        /\ \/ lastOp'.op = "close" /\ ClosedAtRest
           \/ /\ lastOp'.op = "heightComplete"
              /\ animatedHeight.animation.origin.op = "close"
              /\ ~animatedHeight.animation.origin.visible
              /\ animatedHeight.animation.origin.atRest)
       => /\ modalVisible' = modalVisible
          /\ animatedHeight'.value = animatedHeight.value
          /\ pan' = pan
          /\ onCloseCalls' = onCloseCalls]_vars

\* C4: (for a valid configuration) between an open() and the next one, the
\* close requests issued while
\* the sheet is visible lead to at most one invocation of onClose, and every
\* invocation is made by a close animation that ran to its end.
C4_OnCloseOncePerCycle ==
    ValidProps
    => /\ cycleCalls <= 1
       /\ \A i \in DOMAIN onCloseObs :
            onCloseObs[i].origin.visible => onCloseObs[i].finished

\* C5: the end of an open animation leaves animatedHeight at height, the end
\* of a close animation leaves it at minClosingHeight, and an animation that
\* no further operation follows does end.
C5_AnimationEndsOnTarget ==
    /\ [](/\ (lastOp.op = "heightComplete" /\ lastOp.origin.op = "open")
              => animatedHeight = [value |-> props.height, animation |-> NoAnimation]
          /\ (lastOp.op = "heightComplete" /\ lastOp.origin.op # "open")
              => animatedHeight = [value |-> props.minClosingHeight,
                                   animation |-> NoAnimation]
          /\ (lastOp.op = "open" /\ props.duration = 0)
              => animatedHeight.value = props.height
          /\ (lastOp.op = "close" /\ props.duration = 0)
              => animatedHeight.value = props.minClosingHeight)
    /\ (opsLeft = 0 /\ animatedHeight.animation.kind = "open")
          ~> (/\ lastOp.op = "heightComplete"
              /\ animatedHeight = [value |-> props.height, animation |-> NoAnimation])
    /\ (opsLeft = 0 /\ animatedHeight.animation.kind = "close")
          ~> (/\ lastOp.op = "heightComplete"
              /\ animatedHeight = [value |-> props.minClosingHeight,
                                   animation |-> NoAnimation])

C5_Witness ==
    /\ lastOp.op = "heightComplete"
    /\ lastOp.origin.op = "open"
    /\ lastOp.origin.atRest
    /\ lastOp.height < props.height
    /\ animatedHeight.value = props.height
    /\ modalVisible
    /\ ValidProps
    /\ props.minClosingHeight > 0
    /\ opsLeft = 0

\* C6: every invocation of onClose that a close request on a visible sheet
\* leads to finds animatedHeight at minClosingHeight and pan at (0,0).
C6_OnCloseAfterHeightAndPan ==
    \A i \in DOMAIN onCloseObs :
        (ValidProps /\ onCloseObs[i].origin.visible)
        => /\ onCloseObs[i].height = props.minClosingHeight
           /\ onCloseObs[i].pan = <<0, 0>>

\* C7: (for a valid configuration) open() on a visible sheet changes neither
\* modalVisible, nor
\* animatedHeight and the animation running on it, nor pan.
C7_OpenWhenVisibleNoOp ==
    [][(ValidProps /\ lastOp'.op = "open" /\ modalVisible)
       => /\ modalVisible' = modalVisible
          /\ animatedHeight' = animatedHeight
          /\ pan' = pan]_vars

\* C8: (for a valid configuration) an animation that a new one replaces
\* never takes effect: open()
\* during a close animation leaves the sheet visible, pan as it is and onClose
\* not invoked; close() during an open animation does not pin animatedHeight;
\* when no animation runs, the state is the one of the last call.
C8_SupersededNeverTakesEffect ==
    /\ [][/\ (/\ ValidProps
                /\ lastOp'.op = "open"
                /\ modalVisible
                /\ animatedHeight.animation.kind = "close")
              => /\ modalVisible'
                 /\ pan' = pan
                 /\ onCloseCalls' = onCloseCalls
          /\ (/\ ValidProps
              /\ lastOp'.op = "close"
              /\ animatedHeight.animation.kind = "open")
              => animatedHeight'.value = animatedHeight.value]_vars
    /\ []((ValidProps /\ animatedHeight.animation.kind = "none")
          => /\ lastCall = "open"
                => modalVisible /\ animatedHeight.value = props.height
             /\ lastCall = "close"
                => ~modalVisible /\ animatedHeight.value = props.minClosingHeight)

\* C9: (for a valid configuration with a positive duration) modalVisible is
\* true right after open() (called on a visible sheet or
\* on a sheet at rest), and it turns false only in the step in which a close
\* animation ends.
C9_VisibleUntilCloseCompletes ==
    [][(ValidProps /\ Timed)
       => /\ (lastOp'.op = "open" /\ (modalVisible \/ AtRest)) => modalVisible'
          /\ (modalVisible /\ ~modalVisible')
             => /\ lastOp'.op = "heightComplete"
                /\ animatedHeight.animation.kind = "close"]_vars

\* C10: once close() was called during a gesture, no drag sample and no
\* release of that gesture (here: one that arrives while the sheet is still
\* visible) starts another animation of animatedHeight or leads to an
\* invocation of onClose: one close animation runs, and onClose is invoked
\* once.
C10_CloseDuringDrag ==
    [][(/\ ValidProps
        /\ Timed
        /\ closeInDrag
        /\ modalVisible
        /\ lastOp'.op \in {"move", "release"})
       => /\ animatedHeight'.animation = animatedHeight.animation
          /\ onCloseCalls' = onCloseCalls]_vars

\* a step that leaves the sheet as it is
NothingChanges ==
    /\ modalVisible' = modalVisible
    /\ animatedHeight' = animatedHeight
    /\ pan' = pan
    /\ onCloseCalls' = onCloseCalls

\* C11: a press on the mask starts a close animation (to minClosingHeight,
\* with the current closure) when closeOnPressMask is true at the press, and
\* changes nothing when it is false.
C11_MaskPress ==
    [][lastOp'.op = "mask"
       => IF props.closeOnPressMask
          THEN IF props.duration = 0
               THEN ~modalVisible' /\ animatedHeight'.value = props.minClosingHeight
               ELSE animatedHeight'.animation =
                        [kind |-> "close", toValue |-> props.minClosingHeight,
                         closure |-> Closure(props), origin |-> Request("mask", 0)]
          ELSE NothingChanges]_vars

C11_Witness ==
    /\ lastOp.op = "mask"
    /\ ~props.closeOnPressMask
    /\ modalVisible
    /\ lastOp.running = "open"
    /\ animatedHeight.animation.kind = "open"
    /\ ValidProps

\* what a call leaves behind, without the name of the caller
Outcome(s) ==
    [modalVisible |-> s.modalVisible,
     value |-> s.animatedHeight.value,
     kind |-> s.animatedHeight.animation.kind,
     toValue |-> s.animatedHeight.animation.toValue,
     closure |-> s.animatedHeight.animation.closure,
     pan |-> s.pan,
     onClose |-> [i \in DOMAIN s.log |-> s.log[i].finished]]

\* C12: a back request with closeOnPressBack true leaves the sheet as close()
\* would (same animation, same callbacks run), the end of the animation it
\* starts hides the sheet, resets pan and invokes onClose once; with
\* closeOnPressBack false it changes nothing.
C12_BackRequestIsClose ==
    [][/\ lastOp'.op = "back"
          => IF props.closeOnPressBack
             THEN Outcome([modalVisible |-> modalVisible',
                           animatedHeight |-> animatedHeight',
                           pan |-> pan', log |-> onCloseObs'])
                  = Outcome(setModalVisibility(Store, Closure(props), FALSE,
                                               Request("close", 0)))
             ELSE NothingChanges
       /\ (lastOp'.op = "heightComplete" /\ animatedHeight.animation.origin.op = "back")
          => /\ ~modalVisible'
             /\ pan' = initialPan
             /\ animatedHeight'.value = props.minClosingHeight
             /\ onCloseCalls' = onCloseCalls + (IF props.onClose THEN 1 ELSE 0)]_vars

C12_Witness ==
    /\ lastOp.op = "heightComplete"
    /\ lastOp.origin.op = "back"
    /\ lastOp.visible
    /\ ~modalVisible
    /\ onCloseCalls = 1
    /\ ValidProps

\* C16: a drag sample of a claimed gesture with dy > 0 sets pan.y to dy and
\* leaves pan.x, a sample with dy <= 0 leaves pan as it is; no sample starts
\* an animation or changes modalVisible or animatedHeight.
C16_DragSample ==
    [][lastOp'.op = "move"
       => /\ IF lastOp'.dy > 0
             THEN pan' = [x |-> pan.x, y |-> lastOp'.dy, animation |-> NoSpring]
             ELSE pan' = pan
          /\ modalVisible' = modalVisible
          /\ animatedHeight' = animatedHeight
          /\ onCloseCalls' = onCloseCalls]_vars

C16_Witness ==
    /\ lastOp.op = "move"
    /\ lastOp.gesture = "active"
    /\ lastOp.dy > props.height
    /\ pan.y = lastOp.dy
    /\ modalVisible

\* C13 as stated: for 0 <= minClosingHeight < height, animatedHeight is
\* within minClosingHeight..height in every reachable state, the initial one
\* (animatedHeight = 0) included.
C13_HeightWithinBounds ==
    (0 <= props.minClosingHeight /\ props.minClosingHeight < props.height)
    => /\ props.minClosingHeight <= animatedHeight.value
       /\ animatedHeight.value <= props.height

\* C13 amended: for 0 <= minClosingHeight < height, animatedHeight is within
\* 0..height in every reachable state, and it is at least minClosingHeight
\* in every state reached after an animation of animatedHeight has run to its
\* end.
C13_HeightWithinBoundsOnceEnded ==
    (0 <= props.minClosingHeight /\ props.minClosingHeight < props.height)
    => /\ 0 <= animatedHeight.value
       /\ animatedHeight.value <= props.height
       /\ ended => props.minClosingHeight <= animatedHeight.value

C13_Witness ==
    /\ ended
    /\ lastOp.op = "heightFrame"
    /\ animatedHeight.animation.kind = "close"
    /\ 0 < props.minClosingHeight
    /\ props.minClosingHeight < animatedHeight.value
    /\ animatedHeight.value < props.height

\* C15: a drag sample or a release handled while the sheet is closed
\* (modalVisible false) leaves pan, animatedHeight and modalVisible unchanged,
\* starts no animation and invokes no onClose.
C15_ClosedSheetIgnoresDrag ==
    [][(/\ lastOp'.op \in {"move", "release"}
        /\ ~modalVisible
        /\ ValidProps
        /\ Timed)
       => NothingChanges]_vars

\* C17: pan.x is 0 in every state, pan.y is >= 0 whenever no gesture is active
\* and no animation is in flight, and pan is (0,0) whenever the sheet is closed
\* and at rest.
C17_PanAtRest ==
    ValidProps
    => /\ pan.x = 0
       /\ AtRest => pan.y >= 0
       /\ ClosedAtRest => (pan.x = 0 /\ pan.y = 0)

\* the step issues a close on a visible sheet: close(), a mask press or a back
\* request that is honoured, or a release past the threshold
IssuesClose ==
    /\ modalVisible
    /\ \/ lastOp'.op = "close"
       \/ lastOp'.op = "mask" /\ props.closeOnPressMask
       \/ lastOp'.op = "back" /\ props.closeOnPressBack
       \/ lastOp'.op = "release" /\ panResponder.height < 4 * lastOp'.dy

\* C18: a step that issues a close on a visible sheet leaves pan at the value
\* it had; only the completion of the close animation sets it to (0,0).
C18_CloseRequestKeepsPan ==
    [][(IssuesClose /\ ValidProps /\ Timed)
       => (pan'.x = pan.x /\ pan'.y = pan.y)]_vars

\* C14: a gesture start is claimed exactly when the closeOnDragDown of the
\* current props is true, also after the owner changed the flag.
C14_DragFlagReadLive ==
    [][(lastOp'.op = "start" /\ ValidProps)
       => ((gesture' = "active") <=> props.closeOnDragDown)]_vars

\* C20: a release past the threshold leaves the sheet as close() called at the
\* same moment would: the same animation, to the minClosingHeight and over the
\* duration of the current props, ending in the onClose of the current props.
C20_DragCommitIsClose ==
    [][(/\ lastOp'.op = "release"
        /\ modalVisible
        /\ ValidProps
        /\ panResponder.height < 4 * lastOp'.dy)
       => Outcome([modalVisible |-> modalVisible',
                   animatedHeight |-> animatedHeight',
                   pan |-> pan', log |-> onCloseObs'])
          = Outcome(setModalVisibility(Store, Closure(props), FALSE,
                                       Request("close", 0)))]_vars

\* C19: an operation on a second sheet changes neither the animatedHeight nor
\* the pan of this sheet.
C19_OwnAnimatedValues ==
    [][(lastOp'.op = "open2" /\ modalVisible /\ AtRest /\ ValidProps)
       => (animatedHeight' = animatedHeight /\ pan' = pan)]_vars

====
